---- MODULE Spec2Model ----
(***************************************************************************)
(* Model of the MBC AI analytics service (src/ai-service/main.py).         *)
(*                                                                         *)
(* Numbers.  Python floats are modelled by exact integer arithmetic:       *)
(*   - a score is an integer number of points (0..100);                    *)
(*   - a GPA is an integer number of tenths (55 is 5.5);                   *)
(*   - a sentiment score is an integer number of thousandths;              *)
(*   - round(x, d) yields an integer number of 10^-d units, rounded half   *)
(*     to even as Python and numpy round.                                  *)
(* A value that is not a number (None, NaN) is the string None or NaN.     *)
(*                                                                         *)
(* Strings that the code orders (ISO timestamps, date bounds of a query)   *)
(* are sequences of numbers ordered lexicographically, as strings are.     *)
(***************************************************************************)
EXTENDS Integers, Sequences, FiniteSets, TLC

VARIABLES
    store,   \* db.feedback_sentiment: the documents, in insertion order
    last,    \* the request handled last: endpoint, inputs, backend GETs, response
    arg,     \* input of the helper function under check (function specifications)
    ret      \* its result

vars == <<store, last, arg, ret>>

None == "None"
NaN == "NaN"

----------------------------------------------------------------------------
(* Arithmetic helpers                                                       *)

Abs(x) == IF x < 0 THEN -x ELSE x

MinOf(a, b) == IF a < b THEN a ELSE b

MaxOf(a, b) == IF a > b THEN a ELSE b

RECURSIVE SumSeq(_)
SumSeq(s) == IF s = <<>> THEN 0 ELSE Head(s) + SumSeq(Tail(s))

RECURSIVE MinSeq(_)
MinSeq(s) == IF Len(s) = 1 THEN s[1] ELSE MinOf(Head(s), MinSeq(Tail(s)))

RECURSIVE MaxSeq(_)
MaxSeq(s) == IF Len(s) = 1 THEN s[1] ELSE MaxOf(Head(s), MaxSeq(Tail(s)))

RECURSIVE SelectIdx(_, _, _)
\* the indices i of 1..n with keep[i], in increasing order
SelectIdx(keep, i, n) ==
    IF i > n THEN <<>>
    ELSE (IF keep[i] THEN <<i>> ELSE <<>>) \o SelectIdx(keep, i + 1, n)

\* floor(a * n / d) without forming a * n (a, n >= 0, d > 0)
MulDiv(a, n, d) == a * (n \div d) + (a * (n % d)) \div d

RECURSIVE IsqrtIn(_, _, _)
\* the largest k in lo..hi with k * k <= n (lo * lo <= n)
IsqrtIn(n, lo, hi) ==
    IF lo >= hi THEN lo
    ELSE LET mid == (lo + hi + 1) \div 2
         IN  IF mid * mid <= n THEN IsqrtIn(n, mid, hi) ELSE IsqrtIn(n, lo, mid - 1)

\* floor(sqrt(n)); 46340 is the largest k whose square is a 32-bit integer
Isqrt(n) == IsqrtIn(n, 0, MinOf(n, 46340))

\* sqrt(q) rounded to the nearest integer, q given by its floor of 4 * q
RoundSqrt4(fourQ) == (Isqrt(fourQ) + 1) \div 2

\* floor(100 * sqrt(num / den)): the integer part, then two decimals
SqrtHundredths(num, den) ==
    LET s0 == Isqrt(num \div den)
        rem == num - den * s0 * s0
        fits(t) == den * (200 * s0 * t + t * t) <= 10000 * rem
    IN  100 * s0 + (CHOOSE t \in 0..99 : fits(t) /\ (t = 99 \/ ~fits(t + 1)))

\* lexicographic order of two strings given as sequences of numbers
RECURSIVE StrLeq(_, _)
StrLeq(a, b) ==
    IF a = <<>> THEN TRUE
    ELSE IF b = <<>> THEN FALSE
    ELSE IF Head(a) < Head(b) THEN TRUE
    ELSE IF Head(a) > Head(b) THEN FALSE
    ELSE StrLeq(Tail(a), Tail(b))

HasKey(m, k) == k \in DOMAIN m

\* df.columns of pd.DataFrame(records): the union of the records' keys
Columns(records) == UNION {DOMAIN records[i] : i \in 1..Len(records)}

\* the values of column k, one per record that has one
ColumnValues(records, k) ==
    LET idx == SelectIdx([i \in 1..Len(records) |-> HasKey(records[i], k)], 1, Len(records))
    IN  [j \in 1..Len(idx) |-> records[idx[j]][k]]

RECURSIVE LongDiv(_, _, _, _)
\* k more decimal digits of a quotient q with remainder r (0 <= r < den)
LongDiv(q, r, den, k) ==
    IF k = 0 THEN <<q, r>>
    ELSE LongDiv(10 * q + (10 * r) \div den, (10 * r) % den, den, k - 1)

\* round(num / den, digits) as a number of 10^-digits units (den > 0)
Round(num, den, digits) ==
    LET qr == LongDiv(num \div den, num % den, den, digits)
    IN  IF 2 * qr[2] < den THEN qr[1]
        ELSE IF 2 * qr[2] > den THEN qr[1] + 1
        ELSE IF qr[1] % 2 = 0 THEN qr[1] ELSE qr[1] + 1

\* round(mean(xs), digits); NaN for no value
RoundMean(xs, digits) == IF xs = <<>> THEN NaN ELSE Round(SumSeq(xs), Len(xs), digits)

\* n * sum(x^2) - sum(x)^2, which is n times the sum of squared deviations
Spread(xs) ==
    LET sq == [i \in 1..Len(xs) |-> xs[i] * xs[i]]
    IN  Len(xs) * SumSeq(sq) - SumSeq(xs) * SumSeq(xs)

\* round(sample std(xs), 2) in hundredths of a unit, unitSq = (units per 1.0)^2;
\* NaN below two values (pandas std has ddof = 1)
RoundStd(xs, unitSq) ==
    LET n == Len(xs)
    IN  IF n < 2 THEN NaN
        ELSE RoundSqrt4(MulDiv((4 * 10000) \div unitSq, Spread(xs), n * (n - 1)))

\* Series.value_counts().to_dict(): each value that occurs, with its count
ValueCounts(xs) ==
    [v \in {xs[i] : i \in 1..Len(xs)} |-> Cardinality({i \in 1..Len(xs) : xs[i] = v})]

\* the result of a helper that raised instead of returning
Raised == [raised |-> TRUE]

IsRaised(r) == HasKey(r, "raised")

----------------------------------------------------------------------------
(* Performance analytics                                                    *)

\* calculate_performance_analytics.get_grade
get_grade(score) ==
    IF score >= 90 THEN "A"
    ELSE IF score >= 80 THEN "B"
    ELSE IF score >= 70 THEN "C"
    ELSE IF score >= 60 THEN "D"
    ELSE "F"

RECURSIVE SortedBy(_, _)
\* df.sort_values(key): the records by increasing key (keys are distinct strings)
SortedBy(records, key) ==
    IF records = <<>> THEN <<>>
    ELSE LET n == Len(records)
             m == CHOOSE i \in 1..n : \A j \in 1..n : StrLeq(records[i][key], records[j][key])
             rest == [j \in 1..(n - 1) |-> IF j < m THEN records[j] ELSE records[j + 1]]
         IN  <<records[m]>> \o SortedBy(rest, key)

\* df.groupby(key)[col].agg(['mean', 'count', 'std']).round(2).to_dict('index');
\* unit is the number of model units per 1.0 of the column
GroupStats(records, key, col, unit) ==
    LET keyed == SelectIdx([i \in 1..Len(records) |-> HasKey(records[i], key)], 1, Len(records))
        groups == {records[keyed[j]][key] : j \in 1..Len(keyed)}
        rows(g) == SelectIdx([j \in 1..Len(keyed) |-> records[keyed[j]][key] = g], 1, Len(keyed))
        vals(g) == ColumnValues([j \in 1..Len(rows(g)) |-> records[keyed[rows(g)[j]]]], col)
    IN  [g \in groups |->
            [mean |-> IF unit = 1 THEN RoundMean(vals(g), 2) ELSE RoundMean(vals(g), 1),
             count |-> Len(vals(g)),
             std |-> RoundStd(vals(g), unit * unit)]]

\* the last against the first score: lines 308 and 501
Trend(first, lastv) ==
    IF lastv > first THEN "improving"
    ELSE IF lastv < first THEN "declining"
    ELSE "stable"

calculate_performance_analytics(marks) ==
    IF marks = <<>> THEN [message |-> "No marks data available"]
    ELSE IF "score" \notin Columns(marks) THEN Raised   \* df['score']: KeyError
    ELSE
    LET cols == Columns(marks)
        scores == ColumnValues(marks, "score")
        basic == [total_subjects |-> Len(marks),
                  average_score |-> RoundMean(scores, 2),
                  highest_score |-> MaxSeq(scores),
                  lowest_score |-> MinSeq(scores),
                  score_range |-> MaxSeq(scores) - MinSeq(scores),
                  standard_deviation |-> RoundStd(scores, 1)]
        subject_wise == IF "subject" \in cols
                        THEN [subject_wise |-> GroupStats(marks, "subject", "score", 1)]
                        ELSE <<>>
        grades == [i \in 1..Len(scores) |-> get_grade(scores[i])]
        grade_dist == [grade_distribution |-> ValueCounts(grades)]
        sorted == SortedBy(marks, "date")
    IN  IF Len(marks) > 1
        THEN \* sort_values(df.index) looks the index up as a column label: KeyError
             IF "date" \notin cols THEN Raised
             ELSE basic @@ subject_wise @@ grade_dist
                  @@ [trend |-> Trend(sorted[1].score, sorted[Len(sorted)].score)]
        ELSE basic @@ subject_wise @@ grade_dist

----------------------------------------------------------------------------
(* Department analytics                                                     *)

\* pd.cut(gpa_data, bins=[0, 6, 7, 8, 9, 10], labels=[...]): the bins, in tenths
GpaBins == <<0, 60, 70, 80, 90, 100>>

GpaLabels == <<"<6", "6-7", "7-8", "8-9", "9-10">>

\* pd.cut of one value: bin k is (bins[k], bins[k+1]], right = True and
\* include_lowest = False being the defaults; NaN outside every bin
cut(g, bins, labels) ==
    IF \E k \in 1..Len(labels) : bins[k] < g /\ g <= bins[k + 1]
    THEN labels[CHOOSE k \in 1..Len(labels) : bins[k] < g /\ g <= bins[k + 1]]
    ELSE NaN

\* value_counts() of a categorical: every label, with its count (NaN is dropped)
gpa_distribution(gpa_data) ==
    [l \in {GpaLabels[k] : k \in 1..Len(GpaLabels)} |->
        Cardinality({i \in 1..Len(gpa_data) : cut(gpa_data[i], GpaBins, GpaLabels) = l})]

calculate_department_analytics(students) ==
    IF students = <<>> THEN [message |-> "No student data available"]
    ELSE
    LET cols == Columns(students)
        n == Len(students)
        active == {i \in 1..n : HasKey(students[i], "isActive") /\ students[i].isActive = TRUE}
        basic == [total_students |-> n,
                  active_students |-> IF "isActive" \in cols THEN Cardinality(active) ELSE n]
        branch_wise == IF "branch" \in cols
                       THEN [branch_wise |-> GroupStats(students, "branch", "gpa", 10)]
                       ELSE <<>>
        gpa_data == ColumnValues(students, "gpa")
        gpa_stats == IF "gpa" \in cols /\ Len(gpa_data) > 0
                     THEN [gpa_stats |->
                             [average_gpa |-> RoundMean(gpa_data, 1),
                              highest_gpa |-> MaxSeq(gpa_data),
                              lowest_gpa |-> MinSeq(gpa_data),
                              gpa_distribution |-> gpa_distribution(gpa_data)]]
                     ELSE <<>>
    IN  \* agg({'gpa': ['count']}) without a gpa column: KeyError
        IF "branch" \in cols /\ "gpa" \notin cols THEN Raised
        ELSE basic @@ branch_wise @@ gpa_stats

----------------------------------------------------------------------------
(* Predictor                                                                *)

\* m.get('subjectId')
SubjectIdOf(m) == IF HasKey(m, "subjectId") THEN m.subjectId ELSE None

\* a truthy Optional[str]: neither None nor the empty string
Truthy(s) == s # None /\ s # ""

\* [m for m in marks if m.get('subjectId') == subject_id]
FilterBySubject(marks, subject_id) ==
    LET idx == SelectIdx([i \in 1..Len(marks) |-> SubjectIdOf(marks[i]) = subject_id],
                         1, Len(marks))
    IN  [j \in 1..Len(idx) |-> marks[idx[j]]]

\* LinearRegression().fit on x = 0..n-1: slope = A / D, intercept = B / D
LinearFit(y) ==
    LET n == Len(y)
        Sx == SumSeq([i \in 1..n |-> i - 1])
        Sxx == SumSeq([i \in 1..n |-> (i - 1) * (i - 1)])
        Sy == SumSeq(y)
        Sxy == SumSeq([i \in 1..n |-> (i - 1) * y[i]])
    IN  [D |-> n * Sxx - Sx * Sx,
         A |-> n * Sxy - Sx * Sy,
         B |-> Sy * Sxx - Sx * Sxy]

\* max(0, min(100, x)) for x = p / d
Clamp(p, d) == MaxOf(0, MinOf(100 * d, p))

\* max(0, x - ci), numerator over d in hundredths
LowerBound(p100, ci100) == MaxOf(0, p100 - ci100)

\* min(100, x + ci), numerator over d in hundredths
UpperBound(p100, ci100, d) == MinOf(100 * 100 * d, p100 + ci100)

predict_with_linear_regression(marks0, subject_id) ==
    LET marks == IF Truthy(subject_id) THEN FilterBySubject(marks0, subject_id) ELSE marks0
    IN
    IF Len(marks) < 3 THEN [error |-> "Insufficient data for linear regression"]
    ELSE IF "score" \notin Columns(marks) THEN Raised   \* df['score']: KeyError
    ELSE
    LET y == ColumnValues(marks, "score")
        n == Len(y)
        fit == LinearFit(y)
        D == fit.D
        \* model.predict([[n]]) = P / D
        P == fit.B + fit.A * n
        \* residuals times D, and their squares' sum
        e == [i \in 1..n |-> D * y[i] - fit.B - fit.A * (i - 1)]
        SSe == SumSeq([i \in 1..n |-> e[i] * e[i]])
        \* 1.96 * np.std(residuals), times 100 * D; the root to two decimals
        ci100 == (196 * SqrtHundredths(SSe, n)) \div 100
        \* total sum of squares of y, times n
        T == Spread(y)
    IN  [method |-> "linear_regression",
         current_average |-> RoundMean(y, 2),
         predicted_next_score |-> Round(Clamp(P, D), D, 2),
         confidence_interval |->
            [lower |-> Round(LowerBound(100 * P, ci100), D, 0),
             upper |-> Round(UpperBound(100 * P, ci100, D), D, 0)],
         slope |-> Round(fit.A, D, 4),
         intercept |-> Round(fit.B, D, 4),
         \* 1 - SSR / SST = A^2 / (D * T); r2_score is 1.0 for a constant series
         r_squared |-> IF T = 0 THEN 10000 ELSE Round(fit.A * fit.A, D * T, 4),
         trend |-> IF fit.A > 0 THEN "improving"
                   ELSE IF fit.A < 0 THEN "declining"
                   ELSE "stable"]

\* the boundaries taken exclusive: score > 90, > 80, ...
get_predicted_grade_strict(num, den) ==
    IF num > 90 * den THEN "A"
    ELSE IF num > 80 * den THEN "B"
    ELSE IF num > 70 * den THEN "C"
    ELSE IF num > 60 * den THEN "D"
    ELSE "F"

\* predict_grade.get_predicted_grade, of the score num / den
get_predicted_grade(num, den) ==
    IF num >= 90 * den THEN "A"
    ELSE IF num >= 80 * den THEN "B"
    ELSE IF num >= 70 * den THEN "C"
    ELSE IF num >= 60 * den THEN "D"
    ELSE "F"

\* the grade_breakdown dictionary of predict_grade, of the average num / den
grade_breakdown(num, den) ==
    [A |-> num >= 90 * den,
     B |-> num >= 80 * den /\ num < 90 * den,
     C |-> num >= 70 * den /\ num < 80 * den,
     D |-> num >= 60 * den /\ num < 70 * den,
     F |-> num < 60 * den]

predict_grade(marks) ==
    IF marks = <<>> THEN [error |-> "No marks data available"]
    ELSE IF \E i \in 1..Len(marks) : ~HasKey(marks[i], "score") THEN Raised  \* m['score']
    ELSE
    LET scores == [i \in 1..Len(marks) |-> marks[i].score]
        sum == SumSeq(scores)
        n == Len(scores)
    IN  [method |-> "grade_prediction",
         current_average |-> Round(sum, n, 2),
         predicted_grade |-> get_predicted_grade(sum, n),
         grade_breakdown |-> grade_breakdown(sum, n),
         confidence |-> IF n >= 5 THEN "high" ELSE IF n >= 3 THEN "medium" ELSE "low"]

----------------------------------------------------------------------------
(* Sentiment analyzer and reporter                                          *)

\* The two library scorers, as the table of their scores (in thousandths) for
\* the texts of the model: SentimentIntensityAnalyzer.polarity_scores and
\* TextBlob(text).sentiment
polarity_scores(text) ==
    CASE text = "I love this course, it is great" ->
            [compound |-> 836, pos |-> 583, neg |-> 0, neu |-> 417]
      [] text = "This was a terrible waste of time" ->
            [compound |-> -710, pos |-> 0, neg |-> 535, neu |-> 465]
      [] OTHER -> [compound |-> 0, pos |-> 0, neg |-> 0, neu |-> 1000]

TextBlobSentiment(text) ==
    CASE text = "I love this course, it is great" -> [polarity |-> 650, subjectivity |-> 675]
      [] text = "This was a terrible waste of time" -> [polarity |-> -600, subjectivity |-> 500]
      [] OTHER -> [polarity |-> 0, subjectivity |-> 0]

analyze_sentiment(text) ==
    LET vader_scores == polarity_scores(text)
        blob == TextBlobSentiment(text)
        \* twice the combined score (compound + polarity) / 2
        combined2 == vader_scores.compound + blob.polarity
        sentiment_class == IF combined2 > 2 * 100 THEN "positive"
                           ELSE IF combined2 < -(2 * 100) THEN "negative"
                           ELSE "neutral"
        confidence == MinOf(Abs(combined2), 1000)
    IN  [vader |-> [compound |-> vader_scores.compound,
                    positive |-> vader_scores.pos,
                    negative |-> vader_scores.neg,
                    neutral |-> vader_scores.neu],
         textblob |-> [polarity |-> blob.polarity, subjectivity |-> blob.subjectivity],
         combined |-> [score |-> Round(combined2, 2, 0),
                       classification |-> sentiment_class,
                       confidence |-> confidence]]

\* pd.to_datetime(timestamp).dt.date: the date part of an ISO timestamp
DateOf(timestamp) == timestamp[1]

\* the least and the greatest of a sequence of strings
MinStr(xs) == xs[CHOOSE i \in 1..Len(xs) : \A j \in 1..Len(xs) : StrLeq(xs[i], xs[j])]

MaxStr(xs) == xs[CHOOSE i \in 1..Len(xs) : \A j \in 1..Len(xs) : StrLeq(xs[j], xs[i])]

\* boolean indexing, scores[scores > 0.1]: the values of xs where mask holds
Masked(xs, mask) ==
    LET idx == SelectIdx(mask, 1, Len(xs))
    IN  [j \in 1..Len(idx) |-> xs[idx[j]]]

generate_sentiment_report(sentiments) ==
    IF sentiments = <<>> THEN [message |-> "No sentiment data available"]
    ELSE
    LET n == Len(sentiments)
        timestamps == [i \in 1..n |-> sentiments[i].timestamp]
        classifications == [i \in 1..n |-> sentiments[i].sentiment.combined.classification]
        scores == [i \in 1..n |-> sentiments[i].sentiment.combined.score]
        positive == Masked(scores, [i \in 1..n |-> scores[i] > 100])
        negative == Masked(scores, [i \in 1..n |-> scores[i] < -100])
        days == {DateOf(timestamps[i]) : i \in 1..n}
        first_day == CHOOSE d \in days : \A o \in days : d <= o
        last_day == CHOOSE d \in days : \A o \in days : o <= d
        \* np.mean of a day's scores, as the pair <<sum, count>>
        daily[d \in days] ==
            LET of_day == {i \in 1..n : DateOf(timestamps[i]) = d}
            IN  <<SumSeq([i \in 1..n |-> IF i \in of_day THEN scores[i] ELSE 0]),
                  Cardinality(of_day)>>
    IN  [summary |-> [total_feedbacks |-> n,
                      date_range |-> [start |-> MinStr(timestamps),
                                      end |-> MaxStr(timestamps)]],
         sentiment_distribution |-> ValueCounts(classifications),
         average_scores |->
            [overall |-> RoundMean(scores, 0),
             positive |-> IF Len(positive) > 0 THEN RoundMean(positive, 0) ELSE 0,
             negative |-> IF Len(negative) > 0 THEN RoundMean(negative, 0) ELSE 0],
         trends |->
            [daily_average |-> daily,
             \* a / b against c / d by cross multiplication
             overall_trend |-> Trend(daily[first_day][1] * daily[last_day][2],
                                     daily[last_day][1] * daily[first_day][2])]]

----------------------------------------------------------------------------
(* API layer                                                                *)
(*                                                                          *)
(* A handler touches what it shares with other requests at one point only,  *)
(* its single awaited call (the backend GET, insert_one or find); the rest  *)
(* of it works on its own locals.  So a handler is one atomic action, taken *)
(* at that point, and requests served concurrently are these actions in any *)
(* order.  What a handler reads before its await and another request can    *)
(* overtake (datetime.utcnow()) is an input of the action.                  *)

\* raise HTTPException(status_code, detail)
HTTPException(status_code, detail) ==
    [exc |-> "HTTPException", status_code |-> status_code, detail |-> detail]

\* any other exception raised inside a handler
OtherException == [exc |-> "Exception"]

\* return AnalyticsResponse(success=..., data=...)
AnalyticsResponse(success, data) ==
    [returned |-> [success |-> success, data |-> data, message |-> None]]

IsException(outcome) == HasKey(outcome, "exc")

\* try: <body> except Exception: raise HTTPException(500, detail).  HTTPException
\* is a subclass of Exception, so the clause catches the handler's own ones too
ExceptException(outcome, detail) ==
    IF IsException(outcome) THEN HTTPException(500, detail) ELSE outcome

\* the HTTP response: a returned model with 200, an HTTPException through
\* http_exception_handler
http_exception_handler(outcome) ==
    IF IsException(outcome)
    THEN [status_code |-> outcome.status_code,
          content |-> [success |-> FALSE, message |-> outcome.detail]]
    ELSE [status_code |-> 200, content |-> outcome.returned]

\* the check written "if auth_header == ''": an absent header passes it
AuthMissing_OnlyEmpty(auth_header) == auth_header = ""

\* if not auth_header
AuthMissing(auth_header) == ~Truthy(auth_header)

\* backend_client.get(path, headers={"Authorization": auth_header}), as the call made
backend_get(path, auth_header) ==
    [method |-> "GET", path |-> path, headers |-> [Authorization |-> auth_header]]

\* marks_data.get("data", [])
JsonData(json) == IF HasKey(json, "data") THEN json.data ELSE <<>>

\* the body of a helper's result as the handler's outcome
Computed(success, result) ==
    IF IsRaised(result) THEN OtherException ELSE AnalyticsResponse(success, result)

\* the common start of the three backend handlers: the header check and the GET.
\* calls are the backend GETs made; outcome is set when the handler ends here
FetchFromBackend(auth_header, path, reply, detail) ==
    IF AuthMissing(auth_header)
    THEN [calls |-> <<>>, outcome |-> HTTPException(401, "Authorization required")]
    ELSE IF reply.status_code # 200
    THEN [calls |-> <<backend_get(path, auth_header)>>,
          outcome |-> HTTPException(reply.status_code, detail)]
    ELSE [calls |-> <<backend_get(path, auth_header)>>, json |-> reply.json]

Fetched(fetch) == HasKey(fetch, "json")

\* the threshold off by one: if len(marks) < 2
InsufficientMarks_Two(marks) == Len(marks) < 2

\* if len(marks) < 3
InsufficientMarks(marks) == Len(marks) < 3

\* the try block of get_student_performance
get_student_performance_body(auth_header, studentId, reply) ==
    LET fetch == FetchFromBackend(auth_header, <<"/api/v1/students", studentId, "marks">>,
                                  reply, "Failed to fetch student data")
        marks == JsonData(fetch.json)
    IN  IF ~Fetched(fetch) THEN fetch
        ELSE [calls |-> fetch.calls,
              outcome |->
                IF marks = <<>>
                THEN AnalyticsResponse(TRUE,
                        [message |-> "No marks data available for analysis"])
                ELSE Computed(TRUE, calculate_performance_analytics(marks))]

\* the try block of get_department_analytics
get_department_analytics_body(auth_header, reply) ==
    LET fetch == FetchFromBackend(auth_header, <<"/api/v1/students">>,
                                  reply, "Failed to fetch department data")
        students == JsonData(fetch.json)
    IN  IF ~Fetched(fetch) THEN fetch
        ELSE [calls |-> fetch.calls,
              outcome |-> Computed(TRUE, calculate_department_analytics(students))]

\* the try block of predict_performance
predict_performance_body(auth_header, prediction_request, reply) ==
    LET fetch == FetchFromBackend(auth_header,
                                  <<"/api/v1/students", prediction_request.studentId, "marks">>,
                                  reply, "Failed to fetch student data")
        marks == JsonData(fetch.json)
        prediction ==
            IF prediction_request.predictionType = "linear_regression"
            THEN predict_with_linear_regression(marks, prediction_request.subjectId)
            ELSE IF prediction_request.predictionType = "grade_prediction"
            THEN predict_grade(marks)
            ELSE predict_with_linear_regression(marks, prediction_request.subjectId)
    IN  IF ~Fetched(fetch) THEN fetch
        ELSE [calls |-> fetch.calls,
              outcome |->
                IF InsufficientMarks(marks)
                THEN AnalyticsResponse(FALSE,
                        [error |-> "Insufficient data for prediction. Need at least 3 marks."])
                ELSE Computed(TRUE, prediction)]

\* an upsert keyed on the text instead of an insert: a document with the same
\* text is replaced
insert_one_upsert(collection, doc) ==
    IF \E i \in 1..Len(collection) : collection[i].text = doc.text
    THEN LET i == CHOOSE i \in 1..Len(collection) : collection[i].text = doc.text
         IN  [collection EXCEPT ![i] = doc @@ [_id |-> i]]
    ELSE Append(collection, doc @@ [_id |-> Len(collection) + 1])

\* db.feedback_sentiment.insert_one(doc): the collection afterwards; the driver
\* gives the document its _id, here its position
insert_one(collection, doc) == Append(collection, doc @@ [_id |-> Len(collection) + 1])

\* the query of get_sentiment_report; an absent parameter and an empty one are
\* both falsy, and both are the empty string here
build_query(start_date, end_date, category) ==
    LET by_time ==
            IF start_date # <<>> /\ end_date # <<>>
            THEN [timestamp |-> [gte |-> start_date, lte |-> end_date]]
            ELSE IF start_date # <<>> THEN [timestamp |-> [gte |-> start_date]]
            ELSE IF end_date # <<>> THEN [timestamp |-> [lte |-> end_date]]
            ELSE [none |-> TRUE]
    IN  IF Truthy(category) THEN by_time @@ [source |-> category] ELSE by_time

\* whether a document matches the query: $gte and $lte order strings
Matches(doc, query) ==
    /\ (HasKey(query, "timestamp") /\ HasKey(query.timestamp, "gte"))
            => StrLeq(query.timestamp.gte, doc.timestamp)
    /\ (HasKey(query, "timestamp") /\ HasKey(query.timestamp, "lte"))
            => StrLeq(doc.timestamp, query.timestamp.lte)
    /\ HasKey(query, "source") => doc.source = query.source

\* db.feedback_sentiment.find(query).to_list(length=None)
find(collection, query) ==
    LET idx == SelectIdx([i \in 1..Len(collection) |-> Matches(collection[i], query)],
                         1, Len(collection))
    IN  [j \in 1..Len(idx) |-> collection[idx[j]]]

\* the try block of analyze_feedback_sentiment; db_ok is whether insert_one
\* succeeds.  collection is the store afterwards; insert_one sets _id in the
\* result dictionary itself, which is the data returned
analyze_feedback_sentiment_body(feedback, now, db_ok) ==
    LET analysis == analyze_sentiment(feedback.text)
        result == [text |-> feedback.text,
                   source |-> feedback.source,
                   sentiment |-> analysis,
                   timestamp |-> now]
        stored == insert_one(store, result)
    IN  IF db_ok
        THEN [collection |-> stored,
              outcome |-> AnalyticsResponse(TRUE, stored[Len(stored)])]
        ELSE [collection |-> store, outcome |-> OtherException]

\* the try block of get_sentiment_report; db_ok is whether find succeeds
get_sentiment_report_body(start_date, end_date, category, db_ok) ==
    LET query == build_query(start_date, end_date, category)
        sentiments == find(store, query)
    IN  IF ~db_ok THEN [query |-> query, outcome |-> OtherException]
        ELSE [query |-> query,
              sentiments |-> sentiments,
              outcome |->
                IF sentiments = <<>>
                THEN AnalyticsResponse(TRUE,
                        [message |-> "No sentiment data available for the specified period"])
                ELSE Computed(TRUE, generate_sentiment_report(sentiments))]

----------------------------------------------------------------------------
(* Inputs of the model                                                      *)

MaxStore == 2      \* feedback is accepted while the store holds fewer documents

\* request.headers.get("authorization"): absent, empty, or a token
AuthHeaders == {None, "", "Bearer token-1"}

StudentIds == {"17", "23"}

SubjectIds == {None, "math"}

PredictionTypes == {"linear_regression", "grade_prediction", "neural_net"}

Mark(subjectId, score, date) == [subjectId |-> subjectId, score |-> score, date |-> <<date>>]

\* the JSON bodies the backend answers a marks request with
MarksJson ==
    { [success |-> TRUE],
      [data |-> <<>>],
      [data |-> <<[subject |-> "Maths", score |-> 91]>>],
      [data |-> <<Mark("math", 55, 2), Mark("math", 75, 1)>>],
      [data |-> <<Mark("math", 60, 1), Mark("math", 70, 2), Mark("math", 80, 3)>>],
      [data |-> <<Mark("math", 0, 1), Mark("math", 50, 2), Mark("math", 100, 3)>>],
      [data |-> <<Mark("math", 90, 1), Mark("physics", 85, 2), Mark("math", 70, 3)>>],
      [data |-> <<[score |-> 65], [score |-> 65], [score |-> 80], [score |-> 95]>>],
      [data |-> <<[subjectId |-> "math"], [subjectId |-> "math"], [subjectId |-> "math"]>>] }

\* the JSON bodies the backend answers the roster request with
StudentsJson ==
    { [success |-> TRUE],
      [data |-> <<>>],
      [data |-> <<[studentId |-> "17", gpa |-> 60], [studentId |-> "23"]>>],
      [data |-> <<[studentId |-> "17", branch |-> "MBC", isActive |-> TRUE],
                  [studentId |-> "23", branch |-> "CSE", isActive |-> FALSE]>>],
      [data |-> <<[studentId |-> "17", branch |-> "MBC", gpa |-> 85, isActive |-> TRUE],
                  [studentId |-> "23", branch |-> "MBC", gpa |-> 90],
                  [studentId |-> "31", branch |-> "CSE", gpa |-> 55, isActive |-> FALSE]>>] }

FailureJson == [success |-> FALSE, message |-> "failed"]

FailureReplies == {[status_code |-> c, json |-> FailureJson] : c \in {403, 404, 503}}

OkReplies(bodies) == {[status_code |-> 200, json |-> j] : j \in bodies}

\* the category parameter of a report
Categories == {None, "general", "course"}

\* datetime.utcnow().isoformat(): <<day, time of day>>
Timestamps == {<<1, 9>>, <<2, 9>>}

\* start_date and end_date of a report: none, a date, or a date and time
StartDates == {<<>>, <<2>>}

EndDates == {<<>>, <<1, 9>>, <<2>>}

\* the feedback submitted: the defaults, a source that is also a category, and
\* a source and a category that differ
Feedbacks ==
    { [text |-> "I love this course, it is great", source |-> "unknown", category |-> "general"],
      [text |-> "The meeting is at 3pm", source |-> "course", category |-> "course"],
      [text |-> "This was a terrible waste of time", source |-> "unknown", category |-> "course"],
      [text |-> "I love this course, it is great", source |-> "course", category |-> "general"] }

PredictionRequests ==
    [studentId : StudentIds, subjectId : SubjectIds, predictionType : PredictionTypes]

BackendReplies(bodies) == FailureReplies \cup OkReplies(bodies)

----------------------------------------------------------------------------
(* The handlers as actions                                                  *)

NoRequest == [endpoint |-> "none"]

NoCall == [fn |-> "none"]

Handled(endpoint, request, calls, outcome) ==
    [endpoint |-> endpoint, request |-> request, calls |-> calls,
     response |-> http_exception_handler(outcome)]

health_check(now) ==
    /\ last' = [endpoint |-> "/health",
                request |-> <<>>,
                calls |-> <<>>,
                response |-> [status_code |-> 200,
                              content |-> [status |-> "healthy",
                                           service |-> "AI Analytics Service",
                                           timestamp |-> now,
                                           version |-> "1.0.0"]]]
    /\ UNCHANGED <<store, arg, ret>>

get_student_performance(auth_header, studentId, reply) ==
    LET body == get_student_performance_body(auth_header, studentId, reply)
    IN  /\ last' = Handled("/api/v1/analytics/performance",
                           [authorization |-> auth_header, studentId |-> studentId,
                            reply |-> IF body.calls = <<>> THEN <<>> ELSE reply],
                           body.calls,
                           ExceptException(body.outcome,
                                "Failed to calculate performance analytics"))
        /\ UNCHANGED <<store, arg, ret>>

get_department_analytics(auth_header, reply) ==
    LET body == get_department_analytics_body(auth_header, reply)
    IN  /\ last' = Handled("/api/v1/analytics/department",
                           [authorization |-> auth_header,
                            reply |-> IF body.calls = <<>> THEN <<>> ELSE reply],
                           body.calls,
                           ExceptException(body.outcome,
                                "Failed to calculate department analytics"))
        /\ UNCHANGED <<store, arg, ret>>

predict_performance(auth_header, prediction_request, reply) ==
    LET body == predict_performance_body(auth_header, prediction_request, reply)
    IN  /\ last' = Handled("/api/v1/prediction/performance",
                           [authorization |-> auth_header, body |-> prediction_request,
                            reply |-> IF body.calls = <<>> THEN <<>> ELSE reply],
                           body.calls,
                           ExceptException(body.outcome, "Failed to generate prediction"))
        /\ UNCHANGED <<store, arg, ret>>

analyze_feedback_sentiment(feedback, now, db_ok) ==
    LET body == analyze_feedback_sentiment_body(feedback, now, db_ok)
    IN  /\ Len(store) < MaxStore
        /\ store' = body.collection
        /\ last' = Handled("/api/v1/sentiment/feedback", feedback, <<>>,
                           ExceptException(body.outcome,
                                "Failed to analyze feedback sentiment"))
        /\ UNCHANGED <<arg, ret>>

get_sentiment_report(start_date, end_date, category, db_ok) ==
    LET body == get_sentiment_report_body(start_date, end_date, category, db_ok)
    IN  /\ last' = Handled("/api/v1/sentiment/report",
                           [start_date |-> start_date, end_date |-> end_date,
                            category |-> category,
                            found |-> IF db_ok THEN body.sentiments ELSE <<>>],
                           <<>>,
                           ExceptException(body.outcome,
                                "Failed to generate sentiment report"))
        /\ UNCHANGED <<store, arg, ret>>

----------------------------------------------------------------------------
(* The service: the backend-facing endpoints                                *)

Init ==
    /\ store = <<>>
    /\ last = NoRequest
    /\ arg = <<>>
    /\ ret = NoCall

Next ==
    \/ \E now \in Timestamps : health_check(now)
    \/ \E a \in AuthHeaders, id \in StudentIds, r \in BackendReplies(MarksJson) :
            get_student_performance(a, id, r)
    \/ \E a \in AuthHeaders, r \in BackendReplies(StudentsJson) :
            get_department_analytics(a, r)
    \/ \E a \in AuthHeaders, p \in PredictionRequests, r \in BackendReplies(MarksJson) :
            predict_performance(a, p, r)

Spec == Init /\ [][Next]_vars

(* The service: the sentiment endpoints and the store, with every other     *)
(* endpoint on a few of its inputs                                          *)

FewAuthHeaders == {None, "Bearer token-1"}

FewReplies == {[status_code |-> 404, json |-> FailureJson],
               [status_code |-> 200, json |-> [data |-> <<>>]]}

FewPredictionRequests ==
    {[studentId |-> "17", subjectId |-> None, predictionType |-> "linear_regression"]}

NextSentiment ==
    \/ \E f \in Feedbacks, now \in Timestamps, ok \in BOOLEAN :
            analyze_feedback_sentiment(f, now, ok)
    \/ \E s \in StartDates, e \in EndDates, c \in Categories, ok \in BOOLEAN :
            get_sentiment_report(s, e, c, ok)
    \/ \E now \in Timestamps : health_check(now)
    \/ \E a \in FewAuthHeaders, r \in FewReplies : get_student_performance(a, "17", r)
    \/ \E a \in FewAuthHeaders, r \in FewReplies : get_department_analytics(a, r)
    \/ \E a \in FewAuthHeaders, p \in FewPredictionRequests, r \in FewReplies :
            predict_performance(a, p, r)

SpecSentiment == Init /\ [][NextSentiment]_vars

----------------------------------------------------------------------------
(* The helper functions on their own: an input drawn by the initial state,  *)
(* and the function applied to it                                           *)

MaxStudents == 2   \* the longest roster given to calculate_department_analytics

MaxMarks == 3      \* the longest list of marks given to the predictor

\* the sequences over S of a length in lo..hi
SeqsOf(S, lo, hi) == UNION {[1..n -> S] : n \in lo..hi}

\* GPAs in tenths at and between the bounds of the buckets; -1 stands for a
\* student without one
GpaValues == {-1, 0, 55, 60, 65, 70, 75, 80, 85, 90, 95, 100}

Rosters ==
    {[i \in 1..Len(g) |-> IF g[i] < 0 THEN [studentId |-> i]
                          ELSE [studentId |-> i, gpa |-> g[i]]] :
        g \in SeqsOf(GpaValues, 0, MaxStudents)}

RegressionScores == {0, 50, 60, 70, 80, 100}

RegressionInputs ==
    {[marks |-> [i \in 1..Len(y) |-> [subjectId |-> "math", score |-> y[i]]],
      subject_id |-> sid] :
        y \in SeqsOf(RegressionScores, 2, MaxMarks), sid \in SubjectIds}

GradeScores == {59, 60, 69, 70, 79, 80, 89, 90, 100}

\* marks dated in the order given
GradeInputs ==
    {[i \in 1..Len(y) |-> [score |-> y[i], date |-> <<i>>]] :
        y \in SeqsOf(GradeScores, 0, MaxMarks)}

InitFn(inputs) ==
    /\ store = <<>>
    /\ last = NoRequest
    /\ arg \in inputs
    /\ ret = NoCall

Call(fn, value) ==
    /\ ret = NoCall
    /\ ret' = [fn |-> fn, value |-> value]
    /\ UNCHANGED <<store, last, arg>>

CallDepartmentAnalytics ==
    Call("calculate_department_analytics", calculate_department_analytics(arg))

SpecDepartment == InitFn(Rosters) /\ [][CallDepartmentAnalytics]_vars

CallLinearRegression ==
    Call("predict_with_linear_regression",
         predict_with_linear_regression(arg.marks, arg.subject_id))

SpecRegression == InitFn(RegressionInputs) /\ [][CallLinearRegression]_vars

CallPredictGrade == Call("predict_grade", predict_grade(arg))

CallPerformanceAnalytics ==
    Call("calculate_performance_analytics", calculate_performance_analytics(arg))

NextGrade == CallPredictGrade \/ CallPerformanceAnalytics

SpecGrade == InitFn(GradeInputs) /\ [][NextGrade]_vars

----------------------------------------------------------------------------
(* Properties                                                               *)

PerformanceEndpoint == "/api/v1/analytics/performance"

DepartmentEndpoint == "/api/v1/analytics/department"

PredictionEndpoint == "/api/v1/prediction/performance"

FeedbackEndpoint == "/api/v1/sentiment/feedback"

ReportEndpoint == "/api/v1/sentiment/report"

BackendEndpoints == {PerformanceEndpoint, DepartmentEndpoint, PredictionEndpoint}

\* C1: on the performance, department and prediction endpoints a request
\* without an Authorization header, or with an empty one, is answered with
\* HTTP status 401.
C1_MissingAuthorizationIs401 ==
    (last.endpoint \in BackendEndpoints /\ last.request.authorization \in {None, ""})
        => last.response.status_code = 401

\* C2: on the three backend endpoints a request without an Authorization
\* header makes no backend GET at all, and any request makes at most one,
\* which is a GET that carries the caller's header value unchanged.
C2_BackendCalls ==
    last.endpoint \in BackendEndpoints =>
        /\ last.request.authorization = None => last.calls = <<>>
        /\ Len(last.calls) <= 1
        /\ \A i \in 1..Len(last.calls) :
                /\ last.calls[i].method = "GET"
                /\ last.calls[i].headers.Authorization = last.request.authorization

\* an authorized request made its single GET with the caller's token
C2_Witness ==
    /\ last.endpoint \in BackendEndpoints
    /\ last.request.authorization = "Bearer token-1"
    /\ Len(last.calls) = 1
    /\ last.calls[1].headers.Authorization = "Bearer token-1"

\* C3: on the three backend endpoints, when the request is authorized and the
\* backend answers the GET with a status s other than 200, the response has
\* status s and success = false.
C3_UpstreamStatusPropagates ==
    (/\ last.endpoint \in BackendEndpoints
     /\ last.calls # <<>>
     /\ last.request.reply.status_code # 200)
        => /\ last.response.status_code = last.request.reply.status_code
           /\ last.response.content.success = FALSE

\* the marks of a backend reply are fewer than three, a body without a data
\* field counting as none
FewerThanThreeMarks(json) == "data" \notin DOMAIN json \/ Len(json.data) < 3

\* C4: an authorized prediction request whose backend reply is 200 with fewer
\* than 3 marks is answered with HTTP 200, success = false and a data object
\* with an error field, whatever predictionType and subjectId are.
C4_FewMarksIsNotAnHttpError ==
    (/\ last.endpoint = PredictionEndpoint
     /\ last.calls # <<>>
     /\ last.request.reply.status_code = 200
     /\ FewerThanThreeMarks(last.request.reply.json))
        => /\ last.response.status_code = 200
           /\ last.response.content.success = FALSE
           /\ "error" \in DOMAIN last.response.content.data

\* a grade prediction asked for with two marks got the business-logic answer
C4_Witness ==
    /\ last.endpoint = PredictionEndpoint
    /\ last.calls # <<>>
    /\ last.request.reply.status_code = 200
    /\ "data" \in DOMAIN last.request.reply.json
    /\ Len(last.request.reply.json.data) = 2
    /\ last.request.body.predictionType = "grade_prediction"
    /\ last.request.body.subjectId = "math"
    /\ last.response.status_code = 200
    /\ last.response.content.success = FALSE

\* C10: the prediction endpoint never answers success = true with a data
\* object that carries an error field.
C10_NoSuccessWithError ==
    (last.endpoint = PredictionEndpoint /\ last.response.status_code = 200)
        => ~(/\ last.response.content.success = TRUE
             /\ "error" \in DOMAIN last.response.content.data)

\* the feedback request l was persisted
Persisted(l) == l.endpoint = FeedbackEndpoint /\ l.response.status_code = 200

\* the range start..end includes the timestamp, an empty bound being none
RangeIncludes(start_date, end_date, timestamp) ==
    /\ start_date = <<>> \/ StrLeq(start_date, timestamp)
    /\ end_date = <<>> \/ StrLeq(timestamp, end_date)

\* C5: once a feedback is persisted with classification c, a later report
\* whose category equals the feedback's category and whose date range
\* includes its timestamp selects that record, once, and counts it in
\* sentiment_distribution[c].
C5_FeedbackAppearsInReport ==
    [][ (/\ Persisted(last)
         /\ last'.endpoint = ReportEndpoint
         /\ last'.response.status_code = 200
         /\ last'.request.category = last.request.category
         /\ RangeIncludes(last'.request.start_date, last'.request.end_date,
                          last.response.content.data.timestamp))
        => LET record == last.response.content.data
               c == record.sentiment.combined.classification
               found == last'.request.found
               report == last'.response.content.data
           IN  /\ Cardinality({i \in 1..Len(found) : found[i]._id = record._id}) = 1
               /\ "sentiment_distribution" \in DOMAIN report
               /\ c \in DOMAIN report.sentiment_distribution
               /\ report.sentiment_distribution[c] =
                    Cardinality({i \in 1..Len(found) :
                                    found[i].sentiment.combined.classification = c})
      ]_vars

\* C6: the sentiment store is append-only: a step keeps every document in
\* place and unchanged, adds at most one, and adds none unless it is a
\* feedback submission.
C6_StoreAppendOnly ==
    [][ /\ Len(store') >= Len(store)
        /\ Len(store') <= Len(store) + 1
        /\ SubSeq(store', 1, Len(store)) = store
        /\ last'.endpoint # FeedbackEndpoint => store' = store
      ]_vars

\* a report was computed from a store of two documents
C6_Witness ==
    /\ Len(store) >= 2
    /\ last.endpoint = ReportEndpoint
    /\ last.response.status_code = 200
    /\ Len(last.request.found) >= 1

\* the bucket of a GPA g (in tenths) by the half-open ranges
\* [0,6) [6,7) [7,8) [8,9) [9,10]
HalfOpenBucket(g) ==
    IF g < 60 THEN "<6"
    ELSE IF g < 70 THEN "6-7"
    ELSE IF g < 80 THEN "7-8"
    ELSE IF g < 90 THEN "8-9"
    ELSE "9-10"

\* C7: every GPA between 0 and 10 is counted in exactly one bucket of
\* gpa_distribution, the one of its half-open range, so the counts sum to the
\* number of GPAs.
C7_GpaBuckets ==
    (ret.fn = "calculate_department_analytics" /\ "gpa_stats" \in DOMAIN ret.value)
        => LET gpas == {i \in 1..Len(arg) : "gpa" \in DOMAIN arg[i]}
               dist == ret.value.gpa_stats.gpa_distribution
           IN  \A l \in DOMAIN dist :
                    dist[l] = Cardinality({i \in gpas : HalfOpenBucket(arg[i].gpa) = l})

\* C8: for at least 3 marks the predicted score and both ends of the
\* confidence interval lie in [0, 100] with lower <= predicted <= upper, and
\* the scores 60, 70, 80 give prediction 90, slope 10, intercept 60, improving.
C8_PredictionWithinBounds ==
    (ret.fn = "predict_with_linear_regression" /\ "method" \in DOMAIN ret.value)
        => LET r == ret.value
               ci == r.confidence_interval
               y == [i \in 1..Len(arg.marks) |-> arg.marks[i].score]
           IN  /\ 0 <= ci.lower /\ ci.lower <= r.predicted_next_score
               /\ r.predicted_next_score <= ci.upper /\ ci.upper <= 100 * 100
               /\ y = <<60, 70, 80>> =>
                    /\ r.predicted_next_score = 90 * 100
                    /\ r.slope = 10 * 10000
                    /\ r.intercept = 60 * 10000
                    /\ r.trend = "improving"

\* the grade of the score num / den by the rule of the specification
GradeByRule(num, den) ==
    CHOOSE g \in {"A", "B", "C", "D", "F"} :
        \/ g = "A" /\ num >= 90 * den
        \/ g = "B" /\ num >= 80 * den /\ num < 90 * den
        \/ g = "C" /\ num >= 70 * den /\ num < 80 * den
        \/ g = "D" /\ num >= 60 * den /\ num < 70 * den
        \/ g = "F" /\ num < 60 * den

\* C9: performance analytics and grade prediction grade by the same rule (A
\* from 90, B from 80, C from 70, D from 60, else F), and predict_grade sets
\* exactly one grade_breakdown flag, that of predicted_grade.
C9_GradeRule ==
    LET scores == [i \in 1..Len(arg) |-> arg[i].score]
        r == ret.value
    IN  /\ (ret.fn = "calculate_performance_analytics" /\ "grade_distribution" \in DOMAIN r)
            => \A g \in {"A", "B", "C", "D", "F"} :
                    LET count == Cardinality({i \in 1..Len(scores) :
                                                GradeByRule(scores[i], 1) = g})
                    IN  IF count = 0 THEN g \notin DOMAIN r.grade_distribution
                        ELSE g \in DOMAIN r.grade_distribution
                             /\ r.grade_distribution[g] = count
        /\ (ret.fn = "predict_grade" /\ "predicted_grade" \in DOMAIN r)
            => /\ r.predicted_grade = GradeByRule(SumSeq(scores), Len(scores))
               /\ Cardinality({g \in DOMAIN r.grade_breakdown : r.grade_breakdown[g]}) = 1
               /\ r.grade_breakdown[r.predicted_grade]

\* two marks of 70 and 90 average exactly 80 and are graded B
C9_Witness ==
    /\ ret.fn = "predict_grade"
    /\ Len(arg) = 2
    /\ arg[1].score = 70
    /\ arg[2].score = 90
    /\ ret.value.predicted_grade = "B"
    /\ ret.value.grade_breakdown.B

====
